---- MODULE Spec2Model ----
(***************************************************************************)
(* TradingBot (src/app/services/trading.py) as a state machine.            *)
(*                                                                         *)
(* One asyncio event loop runs the streaming tasks (one coroutine          *)
(* connect_to_websocket per task) and the API calls of src/app/api/trade.py*)
(* A process of the model is such a coroutine; one action is the code a    *)
(* coroutine runs between two suspension points (network awaits).          *)
(*                                                                         *)
(* Numbers: prices are integers; a fraction (0.5, 1.0) and a percentage    *)
(* (0.02) are kept in hundredths (50, 100, 2); stop_loss_price and         *)
(* trailing_stop_price are kept in hundredths of a price unit, so that     *)
(* buy_price * 0.98 is the exact integer buy_price * 98.                   *)
(* A trading_history record keeps its action and reason; the price and the *)
(* wall-clock time of the record are left out.                             *)
(***************************************************************************)
EXTENDS Integers, Sequences, FiniteSets, TLC

\* ------------------------------------------------------------- bounds
\* coroutines (streaming tasks and API calls) ever started
MaxProcs == 2
\* stimuli of the environment: triggering ticks, entry/exit signals, API calls
MaxTrades == 2
\* stimuli in SpecAuto and in SpecSolo
AutoTrades == 3
SoloTrades == 4
\* coroutines and stimuli in SpecMonitor
MonitorProcs == 2
MonitorTrades == 3
\* coroutines and stimuli in SpecLive
LiveProcs == 1
LiveTrades == 3
\* coroutines and stimuli in SpecRace
RaceProcs == 2
RaceTrades == 2
\* SpecCandles: candles of a stored series, accumulated volume of a candle
MaxCandles == 3
MaxVolume == 2
\* SpecSelect: most symbols select_coin returns in one call of the model
MaxSelected == 2
\* coroutines and stimuli in SpecManage
ManageProcs == 2
ManageTrades == 2
\* coroutines and stimuli in SpecStream
StreamProcs == 2
StreamTrades == 2

Symbols == {"BTC", "ETH"}
SymSeq == <<"BTC", "ETH">>
\* the symbols the environment of Spec selects, buys and sells
Scope == {"BTC"}
\* tick prices around a fill at 100: below the stop-loss, small gain, new high
Prices == {95, 103, 110}
ContractPrices == {100}
BuyUnits == {0, 1}
UserUnits == {0, 1}
UserBuyPrices == {-100, 100}
Signals == {{}, {"long_entry"}, {"long_exit"}, {"long_entry", "long_exit"}}
\* determine_signal_status: the markers of the latest candle and of the latest
\* candle that has any marker (the same candle when the latest one has a marker)
SignalStatus ==
    {st \in [latest : Signals, last_true : Signals] :
        st.latest # {} => st.last_true = st.latest}
\* tick prices of SpecLive: with a gain between the profit target and the trailing stop
LivePrices == {95, 103, 106, 110}
\* tick prices of SpecMonitor: stop-loss, target reached (and trailing stop hit after a high), new high
MonitorPrices == {95, 106, 110}
\* the percentages the operator sets the trailing stop to (0.02, 0.10)
TrailingPercents == {2, 10}

\* ------------------------------------------------- program constants
StopLossFactor == 98
HoldingCoinLimit == 3
SelectLimit == 10
InitTrailingStopPercent == 2
InitTrailingStopAmount == 50
InitProfitTargetProfit == 5
InitProfitTargetAmount == 50
FullAmount == 100
\* the split-sell allowance n of the throttle (n = 1)
AvailableSplitSellCount == 1

VARIABLES
    holding_coins,             \* dict symbol -> HoldingCoin
    in_trading_process_coins,  \* list of symbols
    active_symbols,            \* set
    interest_symbols,          \* set
    running_tasks,             \* dict symbol -> task
    websocket_connections,     \* dict symbol -> task owning the socket
    trading_history,           \* dict symbol -> list of records
    analysis_due,              \* dict symbol -> interval elapsed since last_analysis_time
    config,                    \* trailing_stop_percent, trailing_stop_amount, profit_target
    procs,                     \* the coroutines: streaming tasks and API calls
    opportunities,             \* bound: stimuli the environment may still give
    last,                      \* history: the buy/sell call that resolved last
    events,                    \* history: per symbol, the last two accepted orders / manual operations
    ever_held,                 \* history: symbols that were ever a key of holding_coins
    pt_executed,               \* history: per symbol, profit-target sells of the position that were accepted and returned "0000"
    candlestick_data           \* dict symbol -> stored series (followed in SpecCandles; the
                               \* streaming actions stand for a series by the close of its last candle)

vars == <<holding_coins, in_trading_process_coins, active_symbols, interest_symbols,
          running_tasks, websocket_connections, trading_history, analysis_due, config,
          procs, opportunities, last, events, ever_held, pt_executed,
          candlestick_data>>

\* ------------------------------------------------------------ helpers
Min(a, b) == IF a <= b THEN a ELSE b
Max(a, b) == IF a >= b THEN a ELSE b

InList(seq, x) == \E i \in 1..Len(seq) : seq[i] = x

\* list.remove(x): drops the first occurrence
ListRemove(seq, x) ==
    LET i == CHOOSE k \in 1..Len(seq) : seq[k] = x /\ \A j \in 1..(k - 1) : seq[j] # x
    IN  [k \in 1..(Len(seq) - 1) |-> IF k < i THEN seq[k] ELSE seq[k + 1]]

\* dict.pop(k) / del
DictRemove(d, k) == [x \in (DOMAIN d) \ {k} |-> d[x]]
\* d[k] = v
DictPut(d, k, v) == [x \in (DOMAIN d) \cup {k} |-> IF x = k THEN v ELSE d[x]]

EmptyDict == [x \in {} |-> 0]

\* a coroutine slot that is not in use
FreeProc ==
    [kind |-> "free", sym |-> "none", pc |-> "free", ws_open |-> FALSE,
     phase |-> "none", branch |-> "none", signal |-> {},
     op |-> "none", amount |-> 0, units |-> 0,
     mb |-> "none", result |-> "none", marker |-> FALSE,
     created |-> FALSE, notified |-> FALSE, submitted |-> 0, mutated |-> FALSE,
     unsubscribed |-> FALSE, had |-> FALSE]

\* a coroutine that ended: returned ("done") or cancelled
Ended(kind, pc) == [FreeProc EXCEPT !.kind = kind, !.pc = pc]

NoCall ==
    [kind |-> "none", sym |-> "none", op |-> "none", amount |-> 0, branch |-> "none",
     mb |-> "none", result |-> "none", created |-> FALSE, notified |-> FALSE,
     submitted |-> 0, mutated |-> FALSE, unsubscribed |-> FALSE,
     had |-> FALSE, held |-> FALSE, raised |-> 0]

\* the whole state as one record, so that the statements of one code path compose;
\* `last` shows a call only in the state in which it resolved
Cur ==
    [holding_coins |-> holding_coins,
     in_trading_process_coins |-> in_trading_process_coins,
     active_symbols |-> active_symbols,
     interest_symbols |-> interest_symbols,
     running_tasks |-> running_tasks,
     websocket_connections |-> websocket_connections,
     trading_history |-> trading_history,
     analysis_due |-> analysis_due,
     config |-> config,
     procs |-> procs,
     opportunities |-> opportunities,
     last |-> NoCall,
     events |-> events,
     ever_held |-> ever_held,
     pt_executed |-> pt_executed,
     candlestick_data |-> candlestick_data]

Commit(s) ==
    /\ s.opportunities >= 0
    /\ holding_coins' = s.holding_coins
    /\ in_trading_process_coins' = s.in_trading_process_coins
    /\ active_symbols' = s.active_symbols
    /\ interest_symbols' = s.interest_symbols
    /\ running_tasks' = s.running_tasks
    /\ websocket_connections' = s.websocket_connections
    /\ trading_history' = s.trading_history
    /\ analysis_due' = s.analysis_due
    /\ config' = s.config
    /\ procs' = s.procs
    /\ opportunities' = s.opportunities
    /\ last' = s.last
    /\ events' = s.events
    /\ ever_held' = s.ever_held
    /\ pt_executed' = s.pt_executed
    /\ candlestick_data' = s.candlestick_data

\* history: the last two events of a symbol
Record(s, sym, e) ==
    [s EXCEPT !.events[sym] = <<s.events[sym][2], e>>]

\* the bot after __init__, with room for nprocs coroutines and ntrades stimuli
InitWith(nprocs, ntrades) ==
    /\ holding_coins = EmptyDict
    /\ in_trading_process_coins = <<>>
    /\ active_symbols = {}
    /\ interest_symbols = {}
    /\ running_tasks = EmptyDict
    /\ websocket_connections = EmptyDict
    /\ trading_history = EmptyDict
    /\ analysis_due = EmptyDict
    /\ config = [trailing_stop_percent |-> InitTrailingStopPercent,
                 trailing_stop_amount |-> InitTrailingStopAmount,
                 profit_target |-> [profit |-> InitProfitTargetProfit,
                                    amount |-> InitProfitTargetAmount]]
    /\ procs = [p \in 1..nprocs |-> FreeProc]
    /\ opportunities = ntrades
    /\ last = NoCall
    /\ events = [x \in Symbols |-> <<"none", "none">>]
    /\ ever_held = {}
    /\ pt_executed = [x \in Symbols |-> 0]
    /\ candlestick_data = EmptyDict

\* ------------------------------------------------- position arithmetic
\* get_profit_percentage: (current - buy) / buy * 100, and 0 when buy_price is falsy
\* (exact for the buy prices of the model, which divide every difference * 100)
ProfitPercentage(price, buy_price) ==
    IF buy_price = 0 THEN 0
    ELSE IF buy_price > 0 THEN ((price - buy_price) * 100) \div buy_price
    ELSE ((buy_price - price) * 100) \div (0 - buy_price)

\* add_holding_coin's dictionary
UserHoldingCoin(units, buy_price, percent) ==
    [units |-> units, buy_price |-> buy_price,
     stop_loss_price |-> buy_price * StopLossFactor,
     order_id |-> 0, profit |-> 0, reason |-> "add by user",
     highest_price |-> buy_price,
     trailing_stop_price |-> buy_price * (100 - percent)]

\* the dictionary buy() stores once the fill detail is known
BoughtHoldingCoin(units, reason, buy_price, order_id, percent) ==
    [units |-> units, buy_price |-> buy_price,
     stop_loss_price |-> buy_price * StopLossFactor,
     order_id |-> order_id, profit |-> 0, reason |-> reason,
     highest_price |-> buy_price,
     trailing_stop_price |-> buy_price * (100 - percent)]

\* update_trailing_stop without its test: every call recomputes
update_trailing_stop_always(h, price, percent) ==
    [h EXCEPT !.highest_price = price,
              !.trailing_stop_price = price * (100 - percent)]

\* update_trailing_stop that drags the stop-loss along with the high
update_trailing_stop_and_stop_loss(h, price, percent) ==
    IF price > h.highest_price
    THEN [h EXCEPT !.highest_price = price,
                   !.trailing_stop_price = price * (100 - percent),
                   !.stop_loss_price = price * StopLossFactor]
    ELSE h

\* update_trailing_stop: only a new high moves highest_price and trailing_stop_price
update_trailing_stop(h, price, percent) ==
    IF price > h.highest_price
    THEN [h EXCEPT !.highest_price = price,
                   !.trailing_stop_price = price * (100 - percent)]
    ELSE h

\* set_trailing_stop on a held position: back to the buy price
set_trailing_stop(h, percent) ==
    [h EXCEPT !.highest_price = h.buy_price,
              !.trailing_stop_price = h.buy_price * (100 - percent)]

\* a stop-loss test against a stop that trails the high
check_stop_loss_condition_TrailsHigh(h, price) ==
    price * 100 < h.highest_price * StopLossFactor

\* check_stop_loss_condition
check_stop_loss_condition(h, price) == price * 100 < h.stop_loss_price

\* the trailing-stop test without its profit floor
IsTrailingStopConditionMet_AnyProfit(h, price, profit) ==
    price * 100 <= h.trailing_stop_price

\* is_trailing_stop_condition_met
IsTrailingStopConditionMet(h, price, profit) ==
    price * 100 <= h.trailing_stop_price /\ profit > 1

IsProfitTargetConditionMet(profit, target) == profit > target

\* check_entry_condition / check_exit_condition: substring tests on the signal text
check_entry_condition(signal) == "short_exit" \in signal \/ "long_entry" \in signal
check_exit_condition(signal) == "long_exit" \in signal \/ "short_entry" \in signal

\* ------------------------------------------------------ holding ledger
\* remove_holding_coin (the coroutine's body)
remove_holding_coin(s, sym) ==
    IF sym \in DOMAIN s.holding_coins
    THEN [s EXCEPT !.holding_coins = DictRemove(s.holding_coins, sym)]
    ELSE s

\* sell() calls self.remove_holding_coin(symbol) without await: the coroutine
\* object is created and dropped, its body never runs
SellRemoveHolding(s, sym) == s

PutHolding(s, sym, h) ==
    [s EXCEPT !.holding_coins = DictPut(s.holding_coins, sym, h),
              !.ever_held = s.ever_held \cup {sym},
              !.pt_executed[sym] = 0]

HistoryRecord(action, reason) == [action |-> action, reason |-> reason]

\* trading_history.setdefault(symbol, []).append(record)
HistoryAppend(s, sym, rec) ==
    [s EXCEPT !.trading_history =
        DictPut(s.trading_history, sym,
                Append(IF sym \in DOMAIN s.trading_history
                       THEN s.trading_history[sym] ELSE <<>>, rec))]

\* --------------------------------------------------------- coroutines
Live(r) == r.kind # "free" /\ r.pc \notin {"done", "cancelled"}

\* the coroutine is inside buy() or sell(), or in what its handler does with the result
InCall(r) == r.op # "none"

\* task.cancel() on a task suspended at an await: CancelledError is no Exception,
\* so no handler of buy, sell, execute_trade, analyze_and_trade or the streaming
\* loop catches it; the task ends where it stands
CancelTask(s, t) ==
    IF Live(s.procs[t])
    THEN [s EXCEPT !.procs[t] = Ended("task", "cancelled")]
    ELSE s

\* history: the call of coroutine p has resolved and its caller is done with it
EndCall(s, p) ==
    LET r == s.procs[p] IN
    IF ~InCall(r) THEN s
    ELSE [s EXCEPT
            !.last = [kind |-> r.kind, sym |-> r.sym, op |-> r.op, amount |-> r.amount,
                      branch |-> r.branch, mb |-> r.mb, result |-> r.result,
                      created |-> r.created, notified |-> r.notified,
                      submitted |-> r.submitted, mutated |-> r.mutated,
                      unsubscribed |-> r.unsubscribed, had |-> r.had,
                      held |-> r.sym \in DOMAIN s.holding_coins,
                      raised |-> 0],
            !.procs[p].op = "none", !.procs[p].amount = 0, !.procs[p].units = 0,
            !.procs[p].mb = "none", !.procs[p].result = "none",
            !.procs[p].created = FALSE, !.procs[p].notified = FALSE,
            !.procs[p].submitted = 0, !.procs[p].mutated = FALSE,
            !.procs[p].unsubscribed = FALSE, !.procs[p].had = FALSE]

\* a streaming loop that goes on while the call its handler made is in progress
ToSleep_CallInProgress(s, p) ==
    [s EXCEPT !.procs[p].pc = "sleep"]

\* the streaming loop after analyze_and_trade returned: await asyncio.sleep(1)
ToSleep(s, p) ==
    [EndCall(s, p) EXCEPT !.procs[p].pc = "sleep", !.procs[p].phase = "none",
                          !.procs[p].branch = "none", !.procs[p].signal = {}]

\* an exception of the tick handler that ends the streaming task
HandlerExcept_EndsTask(s, p) ==
    [s EXCEPT !.procs[p] = Ended("task", "done"), !.last.raised = p]

\* analyze_and_trade's except clause: the symbol is removed from the list when
\* it is there, whoever put it there; the handler returns to the streaming loop
\* (last.raised: the coroutine whose handler raised in this step)
HandlerExcept(s, p) ==
    LET sym == s.procs[p].sym
        s1 == IF InList(s.in_trading_process_coins, sym)
              THEN [s EXCEPT !.in_trading_process_coins = ListRemove(@, sym)]
              ELSE s
    IN  [ToSleep([s1 EXCEPT !.procs[p].marker = FALSE], p) EXCEPT !.last.raised = p]

\* analyze_and_trade_by_interval up to its first await
Interval(s, p, sig) ==
    LET sym == s.procs[p].sym IN
    IF ~s.analysis_due[sym] THEN ToSleep(s, p)
    ELSE
      LET s1 == [s EXCEPT !.analysis_due[sym] = FALSE] IN
      IF check_entry_condition(sig)
      THEN [s1 EXCEPT !.procs[p].pc = "entry_notify", !.procs[p].phase = "int",
                      !.procs[p].signal = sig,
                      !.opportunities = s.opportunities - 1]
      ELSE IF check_exit_condition(sig)
      THEN [s1 EXCEPT !.procs[p].pc = "exit_notify", !.procs[p].phase = "int",
                      !.procs[p].signal = sig,
                      !.opportunities = s.opportunities - 1]
      ELSE ToSleep(s1, p)

\* in_trading_process_coins.remove(symbol) at the end of a branch, and what follows:
\* list.remove raises ValueError when the symbol is gone, which ends the handler
RemoveMarkerThen(s, p, sig) ==
    LET sym == s.procs[p].sym IN
    IF ~InList(s.in_trading_process_coins, sym) THEN HandlerExcept(s, p)
    ELSE
      LET s1 == EndCall([s EXCEPT !.in_trading_process_coins = ListRemove(@, sym),
                                  !.procs[p].marker = FALSE], p)
      IN  IF s.procs[p].phase = "imm" THEN Interval(s1, p, sig) ELSE ToSleep(s1, p)

\* disconnect after `await websocket.close()`: leave the active set, cancel and
\* await the task registered for the symbol (cancelling the running task itself
\* is swallowed by disconnect's `except CancelledError`)
FinishDisconnect(s, p, sig) ==
    LET sym == s.procs[p].sym
        s1 == [s EXCEPT !.active_symbols = @ \ {sym},
                        !.procs[p].mutated = @ \/ sym \in s.active_symbols,
                        !.procs[p].unsubscribed = @ \/ sym \in s.active_symbols]
        s2 == IF sym \in DOMAIN s1.running_tasks
              THEN LET t == s1.running_tasks[sym]
                       s1a == [s1 EXCEPT !.running_tasks = DictRemove(@, sym)]
                   IN  IF t = p THEN s1a ELSE CancelTask(s1a, t)
              ELSE s1
    IN  RemoveMarkerThen(s2, p, sig)

\* disconnect up to `await websocket.close()`
BeginDisconnect(s, p, sig) ==
    LET sym == s.procs[p].sym IN
    IF sym \in DOMAIN s.websocket_connections
    THEN LET owner == s.websocket_connections[sym] IN
         [s EXCEPT !.websocket_connections = DictRemove(@, sym),
                   !.procs[owner].ws_open = FALSE,
                   !.procs[p].mutated = TRUE,
                   !.procs[p].unsubscribed = TRUE,
                   !.procs[p].pc = "disconnect"]
    ELSE FinishDisconnect(s, p, sig)

BranchReason(branch) ==
    CASE branch = "trailing_stop" -> "trailing_stop_condition_met"
      [] branch = "stop_loss" -> "stop_loss_condition_met"
      [] branch = "profit_target" -> "profit_target_condition_met"
      [] branch = "entry" -> "entry_signal_condition_met"
      [] branch = "exit" -> "exit_signal_condition_met"
      [] OTHER -> branch

\* the handler's code after `await self.execute_trade(...)` returned `status`
AfterTrade(s, p, status, sig) ==
    LET r == s.procs[p]
        sym == r.sym
        s1 == IF status = "0000"
              THEN [HistoryAppend(s, sym, HistoryRecord(r.op, BranchReason(r.branch)))
                    EXCEPT !.procs[p].mutated = TRUE]
              ELSE s
    IN  IF status = "0000" /\ r.branch \in {"trailing_stop", "stop_loss", "exit"}
        THEN BeginDisconnect(s1, p, sig)
        ELSE RemoveMarkerThen(s1, p, sig)

\* buy() / sell() return `status` to their caller
Return(s, p, status, sig) ==
    LET r == s.procs[p]
        executed == /\ r.op = "sell" /\ r.branch = "profit_target"
                    /\ r.mb = "accepted" /\ status = "0000"
        s1 == [s EXCEPT !.procs[p].result = status,
                        !.pt_executed[r.sym] = IF executed THEN @ + 1 ELSE @]
    IN
    IF s.procs[p].kind = "api"
    THEN [EndCall(s1, p) EXCEPT !.procs[p] = Ended("api", "done")]
    ELSE AfterTrade(s1, p, status, sig)

\* an exception that leaves buy() / sell() uncaught and reaches the caller
ExceptPropagates(s, p, sig) == Return(s, p, "raised", sig)

\* buy()'s and sell()'s `except Exception`: the error becomes the result
Except(s, p, sig) == Return(s, p, "error", sig)

\* a coroutine enters buy() or sell(): up to the first await (get_balance)
StartTrade(s, p, op, amount, branch, phase) ==
    [s EXCEPT !.procs[p].op = op,
              !.procs[p].had = s.procs[p].sym \in DOMAIN s.holding_coins,
              !.procs[p].amount = amount, !.procs[p].branch = branch,
              !.procs[p].phase = phase,
              !.procs[p].pc = IF op = "buy" THEN "buy_units" ELSE "sell_units"]

\* the guard of every handler branch: membership test, then append, no await between
GuardedTrade(s, p, op, amount, branch, phase, sig) ==
    LET sym == s.procs[p].sym IN
    IF InList(s.in_trading_process_coins, sym)
    THEN (IF phase = "imm" THEN Interval(s, p, sig) ELSE ToSleep(s, p))
    ELSE StartTrade([s EXCEPT !.in_trading_process_coins = Append(@, sym),
                              !.procs[p].marker = TRUE],
                    p, op, amount, branch, phase)

\* the three tests with the profit target tried first
FirstExitCondition_ProfitFirst(h, price, profit, target) ==
    IF IsProfitTargetConditionMet(profit, target) THEN "profit_target"
    ELSE IF IsTrailingStopConditionMet(h, price, profit) THEN "trailing_stop"
    ELSE IF check_stop_loss_condition(h, price) THEN "stop_loss"
    ELSE "none"

\* the `if` chain of analyze_and_trade_by_immediate: every branch returns, so the
\* first condition that holds is the only one acted on
FirstExitCondition(h, price, profit, target) ==
    IF IsTrailingStopConditionMet(h, price, profit) THEN "trailing_stop"
    ELSE IF check_stop_loss_condition(h, price) THEN "stop_loss"
    ELSE IF IsProfitTargetConditionMet(profit, target) THEN "profit_target"
    ELSE "none"

\* the fraction each branch sells
BranchAmount(cfg, branch) ==
    CASE branch = "trailing_stop" -> cfg.trailing_stop_amount
      [] branch = "profit_target" -> cfg.profit_target.amount
      [] OTHER -> FullAmount

\* a tick of a symbol without a position run through the stop-loss sell
NotHolding_StopLoss(s, p, sig) ==
    GuardedTrade(s, p, "sell", FullAmount, "stop_loss", "imm", sig)

\* a tick of a symbol that is not in holding_coins: analyze_and_trade_by_immediate
\* returns at once and analyze_and_trade goes on to the interval analysis
NotHolding(s, p, sig) == Interval(s, p, sig)

\* analyze_and_trade_by_immediate up to its first await
Immediate(s, p, price, sig) ==
    LET sym == s.procs[p].sym IN
    IF sym \notin DOMAIN s.holding_coins THEN NotHolding(s, p, sig)
    ELSE
      LET h0 == s.holding_coins[sym]
          profit == ProfitPercentage(price, h0.buy_price)
          h == update_trailing_stop([h0 EXCEPT !.profit = profit], price,
                                    s.config.trailing_stop_percent)
          s1 == [s EXCEPT !.holding_coins[sym] = h]
          s2 == [s1 EXCEPT !.opportunities = s.opportunities - 1]
          branch == FirstExitCondition(h, price, profit, s.config.profit_target.profit)
      IN  IF branch = "none" THEN Interval(s1, p, sig)
          ELSE GuardedTrade(s2, p, "sell", BranchAmount(s.config, branch),
                            branch, "imm", sig)

\* the streaming loop's test `while symbol in self.active_symbols`, then
\* `await websocket.recv()`; leaving the loop leaves `async with`, which closes
LoopTop(s, t) ==
    IF s.procs[t].sym \in s.active_symbols
    THEN [s EXCEPT !.procs[t].pc = "recv"]
    ELSE [s EXCEPT !.procs[t] = Ended("task", "done")]

\* ------------------------------------------------------------- actions
FreeProcs == {p \in DOMAIN procs : procs[p].kind = "free"}
FirstFree == CHOOSE p \in FreeProcs : \A q \in FreeProcs : p <= q

\* the symbols of A in a fixed order
OrderOf(A) == SelectSeq(SymSeq, LAMBDA x : x \in A)
IndexIn(seq, x) == CHOOSE i \in 1..Len(seq) : seq[i] = x
FreeSeq == SelectSeq([i \in 1..Len(procs) |-> i], LAMBDA q : procs[q].kind = "free")

\* selected_coins[:slots_available]: how many of n elements a Python slice [:k] keeps
SliceCount(n, k) == IF k >= 0 THEN Min(n, k) ELSE Max(0, n + k)

\* run(symbols): select, fill the active set, start one task per active symbol
\* (sel is what select_coin returned, kept the part the slice lets through)
Run(sel, kept, symbols) ==
    /\ sel \subseteq Symbols \ active_symbols
    /\ kept \subseteq sel
    /\ Cardinality(kept) =
         SliceCount(Cardinality(sel), SelectLimit - Cardinality(active_symbols))
    /\ LET act == active_symbols \cup kept \cup interest_symbols \cup symbols
           order == OrderOf(act)
       IN  /\ act # {}
           /\ Len(FreeSeq) >= Cardinality(act)
           /\ active_symbols' = act
           /\ interest_symbols' = interest_symbols \cup symbols
           /\ running_tasks' =
                [x \in (DOMAIN running_tasks) \cup act |->
                    IF x \in act THEN FreeSeq[IndexIn(order, x)] ELSE running_tasks[x]]
           /\ procs' =
                [q \in DOMAIN procs |->
                    IF \E x \in act : FreeSeq[IndexIn(order, x)] = q
                    THEN [FreeProc EXCEPT
                            !.kind = "task", !.pc = "init",
                            !.sym = CHOOSE x \in act : FreeSeq[IndexIn(order, x)] = q]
                    ELSE procs[q]]
    /\ UNCHANGED <<holding_coins, in_trading_process_coins, websocket_connections,
                   trading_history, analysis_due, config, opportunities,
                   events, ever_held, pt_executed, candlestick_data>>
    /\ last' = NoCall

\* trade(): initialize_candlestick_data, then connect_to_websocket up to recv
TaskStart(t) ==
    /\ procs[t].kind = "task" /\ procs[t].pc = "init"
    /\ LET sym == procs[t].sym IN
       Commit(LoopTop([Cur EXCEPT !.analysis_due = DictPut(@, sym, TRUE),
                                  !.websocket_connections = DictPut(@, sym, t),
                                  !.procs[t].ws_open = TRUE], t))

\* a tick arrives: update_candlestick_data, analyze_and_trade up to its first await
Tick(t, price, sig) ==
    /\ procs[t].kind = "task" /\ procs[t].pc = "recv" /\ procs[t].ws_open
    /\ LET s == Immediate(Cur, t, price, sig)
       IN  Commit(s)

\* websockets.ConnectionClosed at recv: break
ConnectionClosed(t) ==
    /\ procs[t].kind = "task" /\ procs[t].pc = "recv" /\ ~procs[t].ws_open
    /\ Commit([Cur EXCEPT !.procs[t] = Ended("task", "done")])

\* the peer or the network closes the connection: recv raises
\* websockets.ConnectionClosed, the loop breaks, connect_to_websocket and trade
\* return; active_symbols, running_tasks and websocket_connections keep the symbol
ConnectionLost(t) ==
    /\ procs[t].kind = "task" /\ procs[t].pc = "recv" /\ procs[t].ws_open
    /\ opportunities > 0
    /\ Commit([Cur EXCEPT !.procs[t] = Ended("task", "done"),
                          !.opportunities = @ - 1])

\* asyncio.sleep(1) is over: back to the loop's test
Sleep(t) ==
    /\ procs[t].kind = "task" /\ procs[t].pc = "sleep"
    /\ Commit(LoopTop(Cur, t))

\* time passes: the analysis interval of a symbol has elapsed
IntervalElapses(sym) ==
    /\ sym \in DOMAIN analysis_due /\ ~analysis_due[sym]
    /\ Commit([Cur EXCEPT !.analysis_due[sym] = TRUE])

\* the entry branch from the point where check_entry_condition's
\* send_telegram_message resolves: delivered (ok) or failed with an error status
EntryNotified(s, t, ok) ==
    LET sym == s.procs[t].sym IN
    IF ~ok THEN HandlerExcept(s, t)
    ELSE IF sym \in DOMAIN s.holding_coins THEN ToSleep(s, t)
    ELSE IF Cardinality(DOMAIN s.holding_coins) >= HoldingCoinLimit
         THEN ToSleep(s, t)
    ELSE GuardedTrade(s, t, "buy", FullAmount, "entry", "int", {})

\* check_entry_condition's send_telegram_message resolves; the entry branch
EntryNotify(t, ok) ==
    /\ procs[t].pc = "entry_notify"
    /\ Commit(EntryNotified(Cur, t, ok))

\* the exit branch from the point where check_exit_condition's
\* send_telegram_message resolves
ExitNotified(s, t, ok) ==
    LET sym == s.procs[t].sym IN
    IF ~ok THEN HandlerExcept(s, t)
    ELSE IF sym \notin DOMAIN s.holding_coins THEN ToSleep(s, t)
    ELSE GuardedTrade(s, t, "sell", FullAmount, "exit", "int", {})

\* check_exit_condition's send_telegram_message resolves; the exit branch
ExitNotify(t, ok) ==
    /\ procs[t].pc = "exit_notify"
    /\ Commit(ExitNotified(Cur, t, ok))

\* disconnect's `await websocket.close()` resolves
DisconnectDone(t, ok, sig) ==
    /\ procs[t].pc = "disconnect"
    /\ LET s == IF ok THEN FinishDisconnect(Cur, t, sig) ELSE HandlerExcept(Cur, t)
       IN  Commit(s)

\* ---- buy(): one action per await
\* get_available_buy_units resolves (get_balance, get_orderbook); market_buy is sent
BuyUnitsStep(p, ok, units, sig) ==
    /\ procs[p].pc = "buy_units"
    /\ LET s == IF ok
                THEN [Cur EXCEPT !.procs[p].units = units,
                                 !.procs[p].submitted = @ + 1,
                                 !.procs[p].pc = "market_buy"]
                ELSE Except(Cur, p, sig)
       IN  Commit(s)

\* market_buy resolves
MarketBuyStep(p, out, sig) ==
    /\ procs[p].pc = "market_buy"
    /\ out \in {"accepted", "rejected", "raise"}
    /\ out = "accepted" => procs[p].units > 0
    /\ LET sym == procs[p].sym
           s == CASE out = "accepted" ->
                       [Record(Cur, sym, "buy") EXCEPT
                           !.procs[p].mb = "accepted",
                           !.procs[p].pc = "buy_detail"]
                  [] out = "rejected" ->
                       Return([Cur EXCEPT !.procs[p].mb = "rejected"], p, "0000", sig)
                  [] OTHER ->
                       Except([Cur EXCEPT !.procs[p].mb = "failed"], p, sig)
       IN  Commit(s)

\* get_order_detail resolves: the position is stored when a contract is reported
\* (the order id of coroutine p's order is p)
BuyDetailStep(p, out, contract_price, sig) ==
    /\ procs[p].pc = "buy_detail"
    /\ out \in {"contract", "no_contract", "raise"}
    /\ LET r == procs[p]
           s == CASE out = "contract" ->
                       [PutHolding(Cur, r.sym,
                            BoughtHoldingCoin(r.units,
                                IF r.kind = "api" THEN "user request"
                                ELSE BranchReason(r.branch),
                                contract_price, p,
                                config.trailing_stop_percent))
                        EXCEPT !.active_symbols = @ \cup {r.sym},
                               !.procs[p].created = TRUE,
                               !.procs[p].pc = "buy_notify"]
                  [] out = "no_contract" -> Return(Cur, p, "0000", sig)
                  [] OTHER -> Except(Cur, p, sig)
       IN  Commit(s)

\* buy() from the point where the fill message's send_telegram_message resolves
BuyNotified(s, p, ok, sig) ==
    IF ok
    THEN Return([s EXCEPT !.procs[p].notified = TRUE], p, "0000", sig)
    ELSE Except(s, p, sig)

\* the fill message's send_telegram_message resolves
BuyNotifyStep(p, ok, sig) ==
    /\ procs[p].pc = "buy_notify"
    /\ Commit(BuyNotified(Cur, p, ok, sig))

\* ---- sell(): one action per await
\* get_available_sell_units resolves; market_sell is sent
SellUnitsStep(p, ok, sig) ==
    /\ procs[p].pc = "sell_units"
    /\ LET s == IF ok
                THEN [Cur EXCEPT !.procs[p].submitted = @ + 1,
                                 !.procs[p].pc = "market_sell"]
                ELSE Except(Cur, p, sig)
       IN  Commit(s)

\* market_sell resolves
MarketSellStep(p, out, sig) ==
    /\ procs[p].pc = "market_sell"
    /\ out \in {"accepted", "rejected", "raise"}
    /\ LET r == procs[p]
           sym == r.sym
           s == CASE out = "accepted" ->
                       [Record(Cur, sym,
                               IF r.amount < FullAmount THEN "partial_sell"
                               ELSE "full_sell")
                        EXCEPT !.procs[p].mb = "accepted",
                               !.procs[p].pc = "sell_detail"]
                  [] out = "rejected" ->
                       Return([Cur EXCEPT !.procs[p].mb = "rejected"], p, "0000", sig)
                  [] OTHER ->
                       Except([Cur EXCEPT !.procs[p].mb = "failed"], p, sig)
       IN  Commit(s)

\* get_order_detail resolves: with a contract the profit is computed from
\* holding_coins[symbol] (KeyError when the symbol is not held) and the fill
\* message is sent; without one the function goes on to the removal
SellDetailStep(p, out, sig) ==
    /\ procs[p].pc = "sell_detail"
    /\ out \in {"contract", "no_contract", "raise"}
    /\ LET r == procs[p]
           s == CASE out = "contract" ->
                       IF r.sym \in DOMAIN holding_coins
                       THEN [Cur EXCEPT !.procs[p].pc = "sell_notify"]
                       ELSE Except(Cur, p, sig)
                  [] out = "no_contract" ->
                       Return(SellRemoveHolding(Cur, r.sym), p, "0000", sig)
                  [] OTHER -> Except(Cur, p, sig)
       IN  Commit(s)

\* sell() from the point where the fill message's send_telegram_message resolves
SellNotified(s, p, ok, sig) ==
    IF ok
    THEN Return(SellRemoveHolding([s EXCEPT !.procs[p].notified = TRUE],
                                  s.procs[p].sym), p, "0000", sig)
    ELSE Except(s, p, sig)

\* the fill message's send_telegram_message resolves
SellNotifyStep(p, ok, sig) ==
    /\ procs[p].pc = "sell_notify"
    /\ Commit(SellNotified(Cur, p, ok, sig))

\* ---- the API of src/app/api/trade.py
\* GET /trade/buy: trading_bot.buy(symbol, reason)
ApiBuy(sym) ==
    /\ FreeProcs # {} /\ opportunities > 0
    /\ LET p == FirstFree IN
       Commit(StartTrade([Cur EXCEPT !.procs[p].kind = "api", !.procs[p].sym = sym,
                                     !.opportunities = @ - 1],
                         p, "buy", FullAmount, "user", "none"))

\* GET /trade/sell: trading_bot.sell(symbol, amount, reason)
ApiSell(sym, amount) ==
    /\ FreeProcs # {} /\ opportunities > 0
    /\ LET p == FirstFree IN
       Commit(StartTrade([Cur EXCEPT !.procs[p].kind = "api", !.procs[p].sym = sym,
                                     !.opportunities = @ - 1],
                         p, "sell", amount, "user", "none"))

\* add_holding_coin(symbol, units, buy_price)
AddHoldingCoin(sym, units, buy_price) ==
    /\ opportunities > 0
    /\ Commit([Record(PutHolding(Cur, sym,
                UserHoldingCoin(units, buy_price, config.trailing_stop_percent)),
                sym, "add")
            EXCEPT !.opportunities = @ - 1])

\* what GET /trade/remove-holding answers in the current state: the status for
\* a symbol that is not held; for a held one the call ends in the
\* AttributeError of trading_bot.disconnect_to_websocket, which TradingBot lacks
RemoveHoldingResponse(sym) ==
    IF sym \notin DOMAIN holding_coins THEN "not in holding coins" ELSE "raised"

\* GET /trade/remove-holding: nothing for a symbol that is not held; for a held
\* one remove_holding_coin, then the failing disconnect_to_websocket
RemoveHoldingCoin(sym) ==
    \/ /\ sym \notin DOMAIN holding_coins
       /\ UNCHANGED vars
    \/ /\ sym \in DOMAIN holding_coins
       /\ Commit([Record(remove_holding_coin(Cur, sym), sym, "remove") EXCEPT
                    !.last = [NoCall EXCEPT !.kind = "api", !.sym = sym,
                                            !.op = "remove_holding", !.had = TRUE,
                                            !.result = RemoveHoldingResponse(sym)]])

\* GET /trade/set-trailing-stop-percent: set_trailing_stop_percent(percent)
SetTrailingStopPercent(percent) ==
    /\ opportunities > 0
    /\ Commit([Cur EXCEPT !.config.trailing_stop_percent = percent,
                          !.opportunities = @ - 1,
                          !.last = [NoCall EXCEPT !.kind = "api",
                                                  !.op = "set_trailing_stop_percent"]])

\* GET /trade/set-trailing-stop: set_trailing_stop(symbol, percent)
SetTrailingStop(sym, percent) ==
    /\ opportunities > 0
    /\ LET s == [Cur EXCEPT !.config.trailing_stop_percent = percent,
                            !.opportunities = @ - 1,
                            !.last = [NoCall EXCEPT !.kind = "api", !.sym = sym,
                                                    !.op = "set_trailing_stop"]]
       IN  Commit(IF sym \in DOMAIN holding_coins
                  THEN [s EXCEPT !.holding_coins[sym] = set_trailing_stop(@, percent)]
                  ELSE s)

\* stop_all(): disconnect every symbol of running_tasks, then clear; the closes and
\* the cancellations of one stop_all are taken together
RECURSIVE DisconnectAll(_, _)
DisconnectAll(s, syms) ==
    IF syms = {} THEN s
    ELSE LET sym == CHOOSE x \in syms : TRUE
             s1 == IF sym \in DOMAIN s.websocket_connections
                   THEN [s EXCEPT !.websocket_connections = DictRemove(@, sym),
                                  !.procs[s.websocket_connections[sym]].ws_open = FALSE]
                   ELSE s
             s2 == [s1 EXCEPT !.active_symbols = @ \ {sym}]
             s3 == CancelTask([s2 EXCEPT !.running_tasks = DictRemove(@, sym)],
                              s.running_tasks[sym])
         IN  DisconnectAll(s3, syms \ {sym})

StopAll ==
    /\ DOMAIN running_tasks # {} \/ active_symbols # {}
    /\ Commit([DisconnectAll(Cur, DOMAIN running_tasks) EXCEPT
                  !.running_tasks = EmptyDict, !.active_symbols = {},
                  !.last = [NoCall EXCEPT !.kind = "api", !.op = "stop_all"]])

\* the loop `for symbol in self.active_symbols: create_task(self.trade(symbol));
\* self.running_tasks[symbol] = task` of run and reselect_and_trade
StartTasks(s, act) ==
    LET free == SelectSeq([i \in 1..Len(s.procs) |-> i],
                          LAMBDA q : s.procs[q].kind = "free")
        order == OrderOf(act)
    IN  [s EXCEPT
           !.running_tasks =
               [x \in (DOMAIN s.running_tasks) \cup act |->
                   IF x \in act THEN free[IndexIn(order, x)] ELSE s.running_tasks[x]],
           !.procs =
               [q \in DOMAIN s.procs |->
                   IF \E x \in act : free[IndexIn(order, x)] = q
                   THEN [FreeProc EXCEPT
                           !.kind = "task", !.pc = "init",
                           !.sym = CHOOSE x \in act : free[IndexIn(order, x)] = q]
                   ELSE s.procs[q]]]

\* reselect_and_trade(): disconnect the running symbols that are not held, select,
\* fill the active set, notify (delivered or raising), start one task per active
\* symbol (sel is what select_coin returned, kept the part the slice lets through)
Reselect(sel, kept, ok) ==
    /\ LET dropped == {sym \in DOMAIN running_tasks : sym \notin DOMAIN holding_coins}
           s1 == DisconnectAll(Cur, dropped)
           act == s1.active_symbols \cup kept \cup interest_symbols
           s2 == [s1 EXCEPT !.active_symbols = act,
                            !.last = [NoCall EXCEPT
                                        !.kind = "api", !.op = "reselect_and_trade",
                                        !.result = IF ok THEN "started" ELSE "raised"]]
       IN  /\ sel \subseteq Symbols \ s1.active_symbols
           /\ kept \subseteq sel
           /\ Cardinality(kept) =
                SliceCount(Cardinality(sel), SelectLimit - Cardinality(s1.active_symbols))
           /\ ok => Len(FreeSeq) >= Cardinality(act)
           /\ Commit(IF ok THEN StartTasks(s2, act) ELSE s2)

\* stop_symbol(symbol): disconnect pops the symbol from running_tasks and takes it
\* out of active_symbols, so stop_symbol's own running_tasks.pop(symbol) raises
\* KeyError; without a running task nothing is done
StopSymbol(sym) ==
    /\ opportunities > 0
    /\ LET s == [Cur EXCEPT !.opportunities = @ - 1] IN
       Commit(IF sym \in DOMAIN running_tasks
              THEN [DisconnectAll(s, {sym}) EXCEPT
                      !.last = [NoCall EXCEPT !.kind = "api", !.sym = sym,
                                              !.op = "stop_symbol",
                                              !.result = "raised"]]
              ELSE [s EXCEPT
                      !.last = [NoCall EXCEPT !.kind = "api", !.sym = sym,
                                              !.op = "stop_symbol",
                                              !.result = "returned"]])

\* reselect_and_trade / stop_symbol
Manage(Syms) ==
    \/ \E sel \in SUBSET Syms, kept \in SUBSET Syms, ok \in BOOLEAN :
          Reselect(sel, kept, ok)
    \/ \E sym \in Syms : StopSymbol(sym)

\* run / stop_all
Lifecycle(Syms) ==
    \/ \E sel \in SUBSET Syms, kept \in SUBSET Syms, symbols \in SUBSET Syms :
          Run(sel, kept, symbols)
    \/ StopAll

\* the streaming tasks outside buy() and sell()
StreamingOf(Syms, TickPrices) ==
    \/ \E t \in DOMAIN procs : TaskStart(t)
    \/ \E t \in DOMAIN procs, price \in TickPrices, sig \in Signals : Tick(t, price, sig)
    \/ \E t \in DOMAIN procs : ConnectionClosed(t)
    \/ \E t \in DOMAIN procs : ConnectionLost(t)
    \/ \E t \in DOMAIN procs : Sleep(t)
    \/ \E sym \in Syms : IntervalElapses(sym)
    \/ \E t \in DOMAIN procs, ok \in BOOLEAN : EntryNotify(t, ok)
    \/ \E t \in DOMAIN procs, ok \in BOOLEAN : ExitNotify(t, ok)
    \/ \E t \in DOMAIN procs, ok \in BOOLEAN, sig \in Signals : DisconnectDone(t, ok, sig)

Streaming(Syms) == StreamingOf(Syms, Prices)

\* the awaits of buy() and sell(), whoever called
Calls ==
    \/ \E p \in DOMAIN procs, ok \in BOOLEAN, units \in BuyUnits, sig \in Signals :
          BuyUnitsStep(p, ok, units, sig)
    \/ \E p \in DOMAIN procs, out \in {"accepted", "rejected", "raise"}, sig \in Signals :
          MarketBuyStep(p, out, sig)
    \/ \E p \in DOMAIN procs, out \in {"contract", "no_contract", "raise"},
          cp \in ContractPrices, sig \in Signals : BuyDetailStep(p, out, cp, sig)
    \/ \E p \in DOMAIN procs, ok \in BOOLEAN, sig \in Signals : BuyNotifyStep(p, ok, sig)
    \/ \E p \in DOMAIN procs, ok \in BOOLEAN, sig \in Signals : SellUnitsStep(p, ok, sig)
    \/ \E p \in DOMAIN procs, out \in {"accepted", "rejected", "raise"}, sig \in Signals :
          MarketSellStep(p, out, sig)
    \/ \E p \in DOMAIN procs, out \in {"contract", "no_contract", "raise"}, sig \in Signals :
          SellDetailStep(p, out, sig)
    \/ \E p \in DOMAIN procs, ok \in BOOLEAN, sig \in Signals : SellNotifyStep(p, ok, sig)

\* the operator's requests through the API
Operator(Syms) ==
    \/ \E sym \in Syms : ApiBuy(sym)
    \/ \E sym \in Syms, amount \in {InitProfitTargetAmount, FullAmount} :
          ApiSell(sym, amount)
    \/ \E sym \in Syms, units \in UserUnits, bp \in UserBuyPrices :
          AddHoldingCoin(sym, units, bp)
    \/ \E sym \in Syms : RemoveHoldingCoin(sym)

\* the operator's settings through the API
Settings(Syms) ==
    \/ \E percent \in TrailingPercents : SetTrailingStopPercent(percent)
    \/ \E sym \in Syms, percent \in TrailingPercents : SetTrailingStop(sym, percent)

Init == InitWith(MaxProcs, MaxTrades)

\* every step the bot can take when the environment trades the symbols of Scope
Next == Lifecycle(Scope) \/ Streaming(Scope) \/ Calls \/ Operator(Scope) \/ Settings(Scope)

Spec == Init /\ [][Next]_vars

\* the bot left to itself: streaming tasks and their orders, no operator request
InitAuto == InitWith(MaxProcs, AutoTrades)

NextAuto == Lifecycle(Scope) \/ Streaming(Scope) \/ Calls

SpecAuto == InitAuto /\ [][NextAuto]_vars

\* one coroutine at a time, a longer run
InitSolo == InitWith(1, SoloTrades)

SpecSolo == InitSolo /\ [][Next]_vars

\* the steps a streaming task takes by itself once it is ready: the connection
\* is made, asyncio.sleep(1) is over, recv on a closed socket raises
TaskStep(t) == TaskStart(t) \/ Sleep(t) \/ ConnectionClosed(t)

\* the event loop runs every ready coroutine, and the awaits on the exchange
\* and on Telegram resolve; ticks, lost connections and operator requests
\* are the environment's and may never come
Fairness ==
    /\ \A t \in 1..LiveProcs : WF_vars(TaskStep(t))
    /\ WF_vars(Calls)
    /\ WF_vars(\E t \in DOMAIN procs, ok \in BOOLEAN : EntryNotify(t, ok))
    /\ WF_vars(\E t \in DOMAIN procs, ok \in BOOLEAN : ExitNotify(t, ok))
    /\ WF_vars(\E t \in DOMAIN procs, ok \in BOOLEAN, sig \in Signals :
                  DisconnectDone(t, ok, sig))

\* the bot left to itself under the event loop's scheduling
InitLive == InitWith(LiveProcs, LiveTrades)

NextLive == Lifecycle(Scope) \/ StreamingOf(Scope, LivePrices) \/ Calls

SpecLive == InitLive /\ [][NextLive]_vars /\ Fairness

\* asyncio.sleep(1) of a streaming loop ends
StreamFairness == \A t \in 1..StreamProcs : WF_vars(Sleep(t))

\* the bot left to itself, every streaming loop getting past its sleep
InitStream == InitWith(StreamProcs, StreamTrades)

SpecStream == InitStream /\ [][NextAuto]_vars /\ StreamFairness

\* ---- two handlers at the holding-coin limit
\* the symbols whose handlers run, the tick price, and the symbols bought before
RaceScope == {"BTC", "ETH"}
RacePrices == {103}
HeldBefore == {"XRP", "ADA"}

\* the bot with two positions bought on entry signals by the handlers of an
\* earlier run that stop_all() has ended
InitRace ==
    /\ holding_coins =
          [x \in HeldBefore |->
              BoughtHoldingCoin(1, BranchReason("entry"), 100, 0,
                                InitTrailingStopPercent)]
    /\ ever_held = HeldBefore
    /\ in_trading_process_coins = <<>>
    /\ active_symbols = {}
    /\ interest_symbols = {}
    /\ running_tasks = EmptyDict
    /\ websocket_connections = EmptyDict
    /\ trading_history = EmptyDict
    /\ analysis_due = EmptyDict
    /\ config = [trailing_stop_percent |-> InitTrailingStopPercent,
                 trailing_stop_amount |-> InitTrailingStopAmount,
                 profit_target |-> [profit |-> InitProfitTargetProfit,
                                    amount |-> InitProfitTargetAmount]]
    /\ procs = [p \in 1..RaceProcs |-> FreeProc]
    /\ opportunities = RaceTrades
    /\ last = NoCall
    /\ events = [x \in Symbols |-> <<"none", "none">>]
    /\ pt_executed = [x \in Symbols |-> 0]
    /\ candlestick_data = EmptyDict

NextRace == Lifecycle(RaceScope) \/ StreamingOf(RaceScope, RacePrices) \/ Calls

SpecRace == InitRace /\ [][NextRace]_vars

\* ---- the candle series of a symbol
\* the ticker messages of the feed: time of the tick and its prices and volume
Ticks ==
    [timestamp : 1..2, open : {100}, close : {100, 105}, high : {105, 110},
     low : {95, 100}, volume : {1}]

\* what get_candlestick_data returns for a symbol: no candle, one, or two
InitialSeries ==
    {<<>>} \cup {<<c>> : c \in {k \in Ticks : k.timestamp = 1}}
           \cup {<<c, d>> : c \in {k \in Ticks : k.timestamp = 1 /\ k.close = 100},
                            d \in {k \in Ticks : k.timestamp = 2 /\ k.low = 95}}

\* a stored series: its candles, and whether the frame has the timestamps as
\* its index (set_index in initialize_candlestick_data) or as a column
EmptySeries == [rows |-> <<>>, indexed |-> FALSE]

\* initialize_candlestick_data: the series is stored when the status is "0000"
initialize_candlestick_data(data, sym, ok, rows) ==
    IF ok THEN DictPut(data, sym, [rows |-> rows, indexed |-> TRUE]) ELSE data

\* the last candle with the tick merged into it
MergeCandle(c, tick) ==
    [c EXCEPT !.close = tick.close,
              !.high = Max(c.high, tick.high),
              !.low = Min(c.low, tick.low),
              !.volume = c.volume + tick.volume]

\* update_candlestick_data: df is the stored frame, or the new frame that
\* df.reset_index() returns when the stored one has the timestamps as index;
\* the merge writes into df, the append stores concat(df, new_candle)
update_candlestick_data(data, sym, tick) ==
    LET d0 == IF sym \in DOMAIN data THEN data ELSE DictPut(data, sym, EmptySeries)
        stored == d0[sym]
        n == Len(stored.rows)
        is_copy == n > 0 /\ stored.indexed
    IN  IF n > 0 /\ stored.rows[n].timestamp = tick.timestamp
        THEN IF is_copy THEN d0
             ELSE [d0 EXCEPT ![sym].rows[n] = MergeCandle(@, tick)]
        ELSE [d0 EXCEPT ![sym] = [rows |-> Append(stored.rows, tick),
                                  indexed |-> FALSE]]

\* trade() fetches the candles of a symbol
InitializeCandles(sym, ok, rows) ==
    /\ rows \in InitialSeries
    /\ Commit([Cur EXCEPT !.candlestick_data =
                   initialize_candlestick_data(@, sym, ok, rows)])

\* a ticker message of a symbol is stored
UpdateCandles(sym, tick) ==
    LET data == update_candlestick_data(candlestick_data, sym, tick)
        rows == data[sym].rows
    IN  /\ Len(rows) <= MaxCandles
        /\ \A i \in 1..Len(rows) : rows[i].volume <= MaxVolume
        /\ Commit([Cur EXCEPT !.candlestick_data = data])

NextCandles ==
    \/ \E sym \in Scope, ok \in BOOLEAN, rows \in InitialSeries :
          InitializeCandles(sym, ok, rows)
    \/ \E sym \in Scope, tick \in Ticks : UpdateCandles(sym, tick)

\* the bot after __init__, no series stored
InitCandles == InitWith(0, 0)

SpecCandles == InitCandles /\ [][NextCandles]_vars

\* ---- the selection step of run() and reselect_and_trade() on a large market
\* the symbols of the market, best score first
MarketSeq ==
    <<"BTC", "ETH", "XRP", "ADA", "SOL", "DOT", "DOGE", "TRX", "LINK", "EOS",
      "BCH", "ETC", "XLM", "QTUM">>
Market == {MarketSeq[i] : i \in 1..Len(MarketSeq)}

\* select_coin: of the symbols that are not active and in an uptrend (sel), the
\* best ten by score
select_coin(sel) ==
    LET sorted == SelectSeq(MarketSeq, LAMBDA x : x \in sel)
    IN  SubSeq(sorted, 1, Min(Len(sorted), SelectLimit))

\* slots_available = limit - len(active_symbols);
\* active_symbols.update(selected_coins[:slots_available])
AddSelected(active, selected) ==
    LET slots_available == SelectLimit - Cardinality(active)
    IN  active \cup {selected[i] :
                        i \in 1..SliceCount(Len(selected), slots_available)}

\* the active set as run(symbols) leaves it: the interest symbols, any number of them
InitSelect ==
    /\ \E k \in 0..(Len(MarketSeq) - 2) :
          /\ interest_symbols = {MarketSeq[i] : i \in 1..k}
          /\ active_symbols = interest_symbols
    /\ holding_coins = EmptyDict
    /\ in_trading_process_coins = <<>>
    /\ running_tasks = EmptyDict
    /\ websocket_connections = EmptyDict
    /\ trading_history = EmptyDict
    /\ analysis_due = EmptyDict
    /\ config = [trailing_stop_percent |-> InitTrailingStopPercent,
                 trailing_stop_amount |-> InitTrailingStopAmount,
                 profit_target |-> [profit |-> InitProfitTargetProfit,
                                    amount |-> InitProfitTargetAmount]]
    /\ procs = <<>>
    /\ opportunities = 0
    /\ last = NoCall
    /\ events = [x \in Symbols |-> <<"none", "none">>]
    /\ ever_held = {}
    /\ pt_executed = [x \in Symbols |-> 0]
    /\ candlestick_data = EmptyDict

\* the first statements of run() and reselect_and_trade(): select, then add the
\* part of the selection that the slice lets through
SelectStep(sel) ==
    /\ sel \subseteq Market \ active_symbols
    /\ sel # {} /\ Cardinality(sel) <= MaxSelected
    /\ Commit([Cur EXCEPT !.active_symbols = AddSelected(@, select_coin(sel))])

NextSelect == \E a \in Market, b \in Market : SelectStep({a, b})

SpecSelect == InitSelect /\ [][NextSelect]_vars

\* the bot with its tasks re-selected and stopped symbol by symbol
InitManage == InitWith(ManageProcs, ManageTrades)

NextManage == Lifecycle(Scope) \/ Streaming(Scope) \/ Calls \/ Manage(Scope)

SpecManage == InitManage /\ [][NextManage]_vars

\* the bot left to itself, with ticks at which several exit conditions hold
InitMonitor == InitWith(MonitorProcs, MonitorTrades)

NextMonitor == Lifecycle(Scope) \/ StreamingOf(Scope, MonitorPrices) \/ Calls

SpecMonitor == InitMonitor /\ [][NextMonitor]_vars

\* ------------------------------------------------------------ claims
\* no coroutine is inside a buy/sell call for the symbol
Quiescent(sym) ==
    \A p \in DOMAIN procs : ~(procs[p].sym = sym /\ InCall(procs[p]))

\* the market orders of the handlers for a symbol that the exchange has not answered
OrdersInFlight(sym) ==
    {p \in DOMAIN procs : /\ procs[p].kind = "task"
                          /\ procs[p].sym = sym
                          /\ procs[p].pc \in {"market_buy", "market_sell"}}

\* C1: for every symbol, whatever the interleaving of the tick and interval
\* handlers of any number of tasks, at most one market order is in flight
C1_OneOrderInFlight ==
    \A sym \in Symbols : Cardinality(OrdersInFlight(sym)) <= 1

\* C2: concurrent buy calls for one never-held symbol submit one order between them
C2_ConcurrentBuysOneOrder ==
    \A p \in DOMAIN procs, q \in DOMAIN procs :
        (/\ p # q
         /\ procs[p].kind = "api" /\ procs[q].kind = "api"
         /\ procs[p].op = "buy" /\ procs[q].op = "buy"
         /\ procs[p].sym = procs[q].sym
         /\ procs[p].sym \notin ever_held)
        => procs[p].submitted + procs[q].submitted <= 1

\* C3: a symbol stays in in_trading_process_coins only while the call of the
\* handler that inserted it is unresolved: once the call has resolved or the
\* handler's task has been cancelled, the symbol is out of the list
C3_MarkerRemoved ==
    \A i \in 1..Len(in_trading_process_coins) :
        \E p \in DOMAIN procs :
            /\ Live(procs[p])
            /\ procs[p].marker
            /\ procs[p].sym = in_trading_process_coins[i]

\* C4: when no call for a symbol is running, the symbol is a key of
\* holding_coins exactly when its last accepted order or manual operation was
\* a buy, a partial sell or add_holding_coin
C4_HeldIffOwned ==
    \A sym \in Symbols :
        Quiescent(sym) =>
            (sym \in DOMAIN holding_coins
                <=> events[sym][2] \in {"buy", "partial_sell", "add"})

\* C5: an accepted buy followed by an accepted full sell of the same symbol
\* leaves holding_coins without the symbol and in_trading_process_coins empty,
\* seen in the state in which the sell returns "0000"
C5_BuyThenFullSell ==
    \A sym \in Symbols :
        (/\ events[sym] = <<"buy", "full_sell">>
         /\ Quiescent(sym)
         /\ last.op = "sell" /\ last.sym = sym /\ last.result = "0000")
        => (sym \notin DOMAIN holding_coins /\ in_trading_process_coins = <<>>)

\* C6: a buy whose market_buy was rejected creates no position, returns a
\* status other than "0000", sends no fill notification and submits one order
C6_RejectedBuy ==
    (last.op = "buy" /\ last.mb = "rejected")
    => (/\ ~last.created
        /\ last.result # "0000"
        /\ ~last.notified
        /\ last.submitted <= 1)

\* C7: a sell whose market_sell was rejected returns a status other than "0000"
\* and changes neither the trading history nor the subscription of the symbol,
\* whether the API or a handler called it
C7_RejectedSell ==
    (last.op = "sell" /\ last.mb = "rejected")
    => (last.result # "0000" /\ ~last.mutated)

\* C8: after a successful sell of a fraction below 1.0 of a held position the
\* position is kept and its price stream stays subscribed; after a successful
\* sell of 1.0 or more the position is gone
C8_PartialKeepsFullRemoves ==
    (last.op = "sell" /\ last.had /\ last.mb = "accepted" /\ last.result = "0000")
    => (/\ last.amount < FullAmount => (last.held /\ ~last.unsubscribed)
        /\ last.amount >= FullAmount => ~last.held)

\* C9: with an allowance of AvailableSplitSellCount, one position sees at most
\* AvailableSplitSellCount + 1 executed profit-target partial sells
C9_SplitSellThrottle ==
    \A sym \in Symbols : pt_executed[sym] <= AvailableSplitSellCount + 1

\* C10: every position of holding_coins has units > 0 and buy_price >= 0
C10_PositionWellFormed ==
    \A sym \in DOMAIN holding_coins :
        holding_coins[sym].units > 0 /\ holding_coins[sym].buy_price >= 0

\* a tick for the symbol is handled in this step: a task that waited at recv on
\* an open socket has run analyze_and_trade
TickOn(sym) ==
    \E t \in DOMAIN procs :
        /\ procs[t].kind = "task" /\ procs[t].sym = sym
        /\ procs[t].pc = "recv" /\ procs[t].ws_open
        /\ procs'[t].pc \notin {"recv", "cancelled", "done"}

\* set_trailing_stop or set_trailing_stop_percent is called in this step
TrailingSetterCalled ==
    last'.op \in {"set_trailing_stop", "set_trailing_stop_percent"}

\* C11: the trailing_stop_price of a position that stays in the ledger does not
\* decrease in a step that handles a tick or calls set_trailing_stop or
\* set_trailing_stop_percent
C11_TrailingStopNeverDecreases ==
    [][\A sym \in Symbols :
          (/\ sym \in DOMAIN holding_coins
           /\ sym \in DOMAIN holding_coins'
           /\ (TickOn(sym) \/ TrailingSetterCalled))
          => holding_coins'[sym].trailing_stop_price
                >= holding_coins[sym].trailing_stop_price]_vars

SellAdvances(sym) ==
    \E p \in DOMAIN procs :
        procs[p].sym = sym /\ procs[p].op = "sell" /\ procs'[p] # procs[p]

\* C13: the stop_loss_price of a position that stays in the ledger is the same
\* after a step that handles a tick, updates or sets the trailing stop, or
\* advances a sell of the symbol
C13_StopLossUnchanged ==
    [][\A sym \in Symbols :
          (/\ sym \in DOMAIN holding_coins
           /\ sym \in DOMAIN holding_coins'
           /\ (TickOn(sym) \/ TrailingSetterCalled \/ SellAdvances(sym)))
          => holding_coins'[sym].stop_loss_price
                = holding_coins[sym].stop_loss_price]_vars

\* a position that saw a new high and an accepted partial sell, with the
\* stop-loss it was created with
C13_StopLossAfterTickAndPartialSell ==
    \E sym \in DOMAIN holding_coins :
        LET h == holding_coins[sym] IN
        /\ last.op = "sell" /\ last.sym = sym /\ last.had
        /\ last.mb = "accepted" /\ last.amount < FullAmount
        /\ h.highest_price > h.buy_price
        /\ h.stop_loss_price = h.buy_price * StopLossFactor

\* C14: every key of holding_coins is in active_symbols
C14_HeldSymbolsActive ==
    DOMAIN holding_coins \subseteq active_symbols

\* C15: a handler's stop-loss sell of a held symbol that the exchange accepted
\* was one order for 100% of the position, and when the handler is done with
\* the tick the symbol is out of holding_coins
C15_StopLossSellsAll ==
    (/\ last.kind = "task" /\ last.op = "sell" /\ last.branch = "stop_loss"
     /\ last.had /\ last.mb = "accepted" /\ last.result = "0000")
    => (/\ last.amount = FullAmount
        /\ last.submitted = 1
        /\ ~last.held)

\* a task waits for a tick of a held symbol that is not in in_trading_process_coins
AwaitsTick(t) ==
    /\ procs[t].kind = "task" /\ procs[t].pc = "recv" /\ procs[t].ws_open
    /\ procs[t].sym \in DOMAIN holding_coins
    /\ ~InList(in_trading_process_coins, procs[t].sym)

EntryEvaluated(t) ==
    procs[t].pc = "entry_notify" /\ procs'[t].pc \notin {"entry_notify", "cancelled"}

\* C17: an evaluation whose latest signal has an entry marker calls buy once
\* exactly when the symbol is not held, fewer than HoldingCoinLimit symbols
\* are held and the symbol is not in in_trading_process_coins
C17_EntryBuysOnce ==
    [][\A t \in DOMAIN procs :
          EntryEvaluated(t) =>
            LET sym == procs[t].sym
                r == procs'[t]
            IN  (r.op = "buy" /\ r.pc = "buy_units" /\ r.submitted = 0)
                <=> (/\ check_entry_condition(procs[t].signal)
                     /\ sym \notin DOMAIN holding_coins
                     /\ Cardinality(DOMAIN holding_coins) < HoldingCoinLimit
                     /\ ~InList(in_trading_process_coins, sym))]_vars

\* a task waits for a tick and the analysis interval of its symbol has elapsed
AwaitsEvaluation(t) ==
    /\ procs[t].kind = "task" /\ procs[t].pc = "recv" /\ procs[t].ws_open
    /\ procs[t].sym \in DOMAIN analysis_due /\ analysis_due[procs[t].sym]

\* the evaluation of task t went past check_exit_condition in this step
ExitEvaluated(t) ==
    procs[t].pc = "exit_notify" /\ procs'[t].pc \notin {"exit_notify", "cancelled"}

\* C18: an evaluation calls sell with fraction 1.0 exactly when
\* type_last_true_signal has an exit marker, the symbol is held and it is not
\* in in_trading_process_coins: with such a signal status the evaluation gets
\* to the exit branch, it gets there only with an exit marker in
\* type_last_true_signal, and the exit branch sells 100% exactly when the
\* symbol is held and not mid-order
C18_ExitOnLastTrueSignal ==
    /\ [](\A t \in DOMAIN procs, st \in SignalStatus :
            AwaitsEvaluation(t) =>
              LET sym == procs[t].sym
                  r == Interval(Cur, t, st.latest).procs[t]
              IN  /\ (/\ check_exit_condition(st.last_true)
                      /\ sym \in DOMAIN holding_coins
                      /\ ~InList(in_trading_process_coins, sym))
                        => r.pc = "exit_notify"
                  /\ r.pc = "exit_notify" => check_exit_condition(st.last_true))
    /\ [][\A t \in DOMAIN procs :
            ExitEvaluated(t) =>
              LET sym == procs[t].sym
                  r == procs'[t]
              IN  (r.op = "sell" /\ r.pc = "sell_units" /\ r.amount = FullAmount)
                  <=> (/\ sym \in DOMAIN holding_coins
                       /\ ~InList(in_trading_process_coins, sym))]_vars

\* C19: a buy or sell call that has resolved has returned a result whose status
\* is "0000" or "error", whatever the gateway calls did
C19_BuySellReturnResult ==
    last.op \in {"buy", "sell"} => last.result \in {"0000", "error"}

\* a sell of a symbol that is not in the ledger, accepted by the exchange, has
\* returned the error result
C19_SellOfUnheldReturnsError ==
    /\ last.op = "sell" /\ ~last.had /\ ~last.held
    /\ last.mb = "accepted" /\ last.result = "error"

\* C20: a remove-holding call for a held symbol ends without error with the
\* symbol out of holding_coins, and a second call right after it answers that
\* the symbol is not in holding coins
C20_RemoveHoldingTwice ==
    last.op = "remove_holding" =>
        /\ last.result = "removed"
        /\ last.sym \notin DOMAIN holding_coins
        /\ RemoveHoldingResponse(last.sym) = "not in holding coins"

\* two outcomes of one coroutine's step agree on what trading did: the result
\* returned, the call entered, the ledger, the history and the in-process list
SameTrading(a, b, p) ==
    /\ a.holding_coins = b.holding_coins
    /\ a.trading_history = b.trading_history
    /\ a.in_trading_process_coins = b.in_trading_process_coins
    /\ a.procs[p].op = b.procs[p].op
    /\ a.procs[p].result = b.procs[p].result
    /\ a.last.op = b.last.op
    /\ a.last.result = b.last.result

\* C21: wherever a coroutine waits for send_telegram_message (the fill message
\* of buy or sell, the signal message of the entry or exit check), trading
\* goes on the same way whether the message is delivered or fails
C21_NotificationNotLoadBearing ==
    \A p \in DOMAIN procs, sig \in Signals :
        /\ procs[p].pc = "buy_notify"
             => SameTrading(BuyNotified(Cur, p, TRUE, sig),
                            BuyNotified(Cur, p, FALSE, sig), p)
        /\ procs[p].pc = "sell_notify"
             => SameTrading(SellNotified(Cur, p, TRUE, sig),
                            SellNotified(Cur, p, FALSE, sig), p)
        /\ procs[p].pc = "entry_notify"
             => SameTrading(EntryNotified(Cur, p, TRUE),
                            EntryNotified(Cur, p, FALSE), p)
        /\ procs[p].pc = "exit_notify"
             => SameTrading(ExitNotified(Cur, p, TRUE),
                            ExitNotified(Cur, p, FALSE), p)

\* the streaming task registered for an active symbol has returned: its
\* connection closed while the symbol was in the active set
ConnectionDown(sym) ==
    /\ sym \in active_symbols
    /\ sym \in DOMAIN running_tasks
    /\ procs[running_tasks[sym]].pc = "done"

\* a task of the symbol waits for ticks on an open connection
Streamed(sym) ==
    \E t \in DOMAIN procs :
        /\ procs[t].kind = "task" /\ procs[t].sym = sym
        /\ procs[t].pc = "recv" /\ procs[t].ws_open

\* C22: when the connection of a symbol has closed while the symbol is in the
\* active set, a task of the symbol eventually waits for ticks on an open
\* connection again, unless the symbol leaves the active set
C22_ReconnectAfterClose ==
    \A sym \in Scope :
        ConnectionDown(sym) ~> (Streamed(sym) \/ sym \notin active_symbols)

\* the exit conditions that hold for a position at a price, in the order of the
\* handler's tests
ExitConditionsMet(h, price, cfg) ==
    LET profit == ProfitPercentage(price, h.buy_price) IN
    SelectSeq(<<"trailing_stop", "stop_loss", "profit_target">>,
              LAMBDA c :
                \/ c = "trailing_stop" /\ price * 100 <= h.trailing_stop_price
                                       /\ profit > 1
                \/ c = "stop_loss" /\ price * 100 < h.stop_loss_price
                \/ c = "profit_target" /\ profit > cfg.profit_target.profit)

\* C23: whatever tick a waiting task gets for a held symbol, the handler starts
\* at most one sell: none when no exit condition holds or the symbol is in
\* in_trading_process_coins, else one for the first condition that holds in
\* the order trailing-stop, stop-loss, profit-target, with one entry added to
\* in_trading_process_coins
C23_OneSellPerTick ==
    \A t \in DOMAIN procs, price \in MonitorPrices :
        (/\ procs[t].kind = "task" /\ procs[t].pc = "recv" /\ procs[t].ws_open
         /\ procs[t].sym \in DOMAIN holding_coins) =>
            LET sym == procs[t].sym
                s == Immediate(Cur, t, price, {})
                met == ExitConditionsMet(s.holding_coins[sym], price, config)
                r == s.procs[t]
                busy == InList(in_trading_process_coins, sym)
            IN  /\ (met = <<>> \/ busy)
                     => /\ r.op = "none"
                        /\ s.in_trading_process_coins = in_trading_process_coins
                /\ (met # <<>> /\ ~busy)
                     => /\ r.op = "sell" /\ r.pc = "sell_units" /\ r.submitted = 0
                        /\ r.branch = met[1]
                        /\ s.in_trading_process_coins
                              = Append(in_trading_process_coins, sym)
                /\ \A q \in DOMAIN procs : q # t => s.procs[q] = procs[q]

\* a tick at which the trailing-stop and the profit-target condition both held
\* has started the trailing-stop sell
C23_TrailingStopBeforeProfitTarget ==
    \E t \in DOMAIN procs :
        LET r == procs[t] IN
        /\ r.kind = "task" /\ r.op = "sell" /\ r.pc = "sell_units"
        /\ r.branch = "trailing_stop"
        /\ r.sym \in DOMAIN holding_coins
        /\ holding_coins[r.sym].profit > config.profit_target.profit
        /\ Len(in_trading_process_coins) = 1

\* the tick prices the exit conditions are probed with
ProbePrices == 1..120

\* C24: for every held position and every tick price, before and after the
\* tick has moved the trailing stop, the trailing-stop condition and the
\* stop-loss condition are not both true
C24_TrailingStopAndStopLossExclusive ==
    \A sym \in DOMAIN holding_coins, price \in ProbePrices :
        LET profit == ProfitPercentage(price, holding_coins[sym].buy_price) IN
        \A h \in {holding_coins[sym],
                   update_trailing_stop(holding_coins[sym], price,
                                        config.trailing_stop_percent)} :
            ~(/\ IsTrailingStopConditionMet(h, price, profit)
              /\ check_stop_loss_condition(h, price))

\* a held position for which some price meets the trailing-stop condition and
\* some price the stop-loss condition
C24_BothConditionsReachable ==
    \E sym \in DOMAIN holding_coins :
        LET h == holding_coins[sym] IN
        /\ \E price \in ProbePrices :
              IsTrailingStopConditionMet(h, price, ProfitPercentage(price, h.buy_price))
        /\ \E price \in ProbePrices : check_stop_loss_condition(h, price)

\* C25: an evaluation of a held symbol whose signal has an entry marker and an
\* exit marker does not end at the entry check: once the entry branch has found
\* the symbol held, the pass goes on to the exit check, which sells
C25_HeldSymbolFailsEntryAndIsSold ==
    \A t \in DOMAIN procs :
        (/\ procs[t].kind = "task" /\ procs[t].pc = "entry_notify"
         /\ check_exit_condition(procs[t].signal)
         /\ procs[t].sym \in DOMAIN holding_coins
         /\ ~InList(in_trading_process_coins, procs[t].sym)) =>
            LET r == EntryNotified(Cur, t, TRUE).procs[t] IN
            r.pc = "exit_notify" \/ r.op = "sell"

\* C26: from the moment market_buy is accepted the symbol is in holding_coins
\* with the order's units and order id, while the fill detail is awaited and
\* after a detail lookup that failed or reported no contract, in which case the
\* entry has a zero buy price
C26_PlaceholderFromAcceptedBuy ==
    /\ \A p \in DOMAIN procs :
          (procs[p].op = "buy" /\ procs[p].pc = "buy_detail") =>
              /\ procs[p].sym \in DOMAIN holding_coins
              /\ holding_coins[procs[p].sym].units = procs[p].units
              /\ holding_coins[procs[p].sym].order_id = p
    /\ (last.op = "buy" /\ last.mb = "accepted" /\ ~last.created) =>
          /\ last.sym \in DOMAIN holding_coins
          /\ holding_coins[last.sym].buy_price = 0

\* C27: whatever tick a waiting task gets for a symbol that is not in
\* holding_coins, the tick-driven stage does nothing: the handler is where the
\* interval analysis alone takes it, whatever the price, with no sell started,
\* no order submitted and holding_coins, in_trading_process_coins and
\* trading_history as they were
C27_NoRiskCheckWithoutPosition ==
    \A t \in DOMAIN procs, price \in LivePrices, sig \in Signals :
        (/\ procs[t].kind = "task" /\ procs[t].pc = "recv" /\ procs[t].ws_open
         /\ procs[t].sym \notin DOMAIN holding_coins) =>
            LET s == Immediate(Cur, t, price, sig) IN
            /\ s = Interval(Cur, t, sig)
            /\ s.procs[t].op = "none" /\ s.procs[t].submitted = 0
            /\ s.holding_coins = holding_coins
            /\ s.in_trading_process_coins = in_trading_process_coins
            /\ s.trading_history = trading_history

\* a task has handled a tick of a symbol that never had a position and is
\* back before its next read, with nothing in progress
C27_TickOfUnheldSymbolHandled ==
    \E t \in DOMAIN procs :
        /\ procs[t].kind = "task" /\ procs[t].pc = "sleep"
        /\ procs[t].sym \notin DOMAIN holding_coins
        /\ events[procs[t].sym] = <<"none", "none">>
        /\ in_trading_process_coins = <<>>
        /\ procs[t].op = "none"

C29_StopAllStopsEveryTask ==
    last.op = "stop_all" =>
        /\ \A t \in DOMAIN procs :
              procs[t].kind = "task" =>
                  /\ ~Live(procs[t])
                  /\ ~procs[t].ws_open
                  /\ ~InCall(procs[t])
        /\ running_tasks = EmptyDict
        /\ active_symbols = {}

\* C30: a streaming task reads its next tick only when the handling of the
\* previous one is over: whenever a task is at recv or at the sleep before it,
\* it is in no buy or sell, no order of it is unanswered, no branch of a
\* handler is open and no entry of in_trading_process_coins is its own; and a
\* tick is taken up only by a task in that condition
C30_TickHandledBeforeNextRead ==
    /\ [](\A t \in DOMAIN procs :
            (procs[t].kind = "task" /\ procs[t].pc \in {"recv", "sleep"}) =>
                /\ ~InCall(procs[t])
                /\ procs[t].submitted = 0 /\ procs[t].mb = "none"
                /\ procs[t].phase = "none" /\ procs[t].branch = "none"
                /\ ~procs[t].marker)
    /\ [][\A t \in DOMAIN procs :
            (procs[t].kind = "task" /\ procs'[t].kind = "task"
             /\ procs'[t].phase # "none" /\ procs[t].phase = "none") =>
                (procs[t].pc = "recv" /\ ~InCall(procs[t]))]_vars

\* the only task has bought through its handler and waits for its next tick
C30_BackAtRecvAfterOrder ==
    \E t \in DOMAIN procs :
        /\ procs[t].kind = "task" /\ procs[t].pc = "recv" /\ procs[t].ws_open
        /\ procs[t].sym \in DOMAIN holding_coins
        /\ events[procs[t].sym][2] = "buy"
        /\ \A q \in DOMAIN procs : q # t => procs[q].kind = "free"

\* the live streaming tasks of a symbol
LiveTasks(sym) ==
    {t \in DOMAIN procs :
        procs[t].kind = "task" /\ procs[t].sym = sym /\ Live(procs[t])}

\* C31: every symbol has at most one live streaming task, and a live task is
\* the one running_tasks records for its symbol
C31_OneLiveTaskPerSymbol ==
    \A sym \in Symbols :
        /\ Cardinality(LiveTasks(sym)) <= 1
        /\ \A t \in LiveTasks(sym) :
              sym \in DOMAIN running_tasks /\ running_tasks[sym] = t

\* C32: a reselect_and_trade call leaves every symbol that was held and active
\* in the active set, with a live streaming task
C32_ReselectKeepsHeldSymbols ==
    [][last'.op = "reselect_and_trade" =>
        \A sym \in (DOMAIN holding_coins) \cap active_symbols :
            /\ sym \in active_symbols'
            /\ \E t \in DOMAIN procs :
                  /\ procs'[t].kind = "task" /\ procs'[t].sym = sym
                  /\ Live(procs'[t])]_vars

\* C37: stop_symbol returns without raising, and the symbol it was called for
\* is then in none of running_tasks, active_symbols and websocket_connections
\* when it had a running task
C37_StopSymbolReturns ==
    last.op = "stop_symbol" =>
        /\ last.result = "returned"
        /\ last.sym \notin DOMAIN running_tasks

\* the number of records of a symbol in trading_history
HistoryLen(h, sym) == IF sym \in DOMAIN h THEN Len(h[sym]) ELSE 0

\* C36: a step of a handler that appends a record to the trading history of a
\* symbol ends or continues a buy or sell of that symbol whose market order
\* the exchange accepted
C36_HistoryOnlyForAcceptedOrders ==
    [][\A sym \in Symbols :
          HistoryLen(trading_history', sym) > HistoryLen(trading_history, sym) =>
              \/ last'.kind = "task" /\ last'.sym = sym /\ last'.mb = "accepted"
              \/ \E p \in DOMAIN procs :
                    /\ procs'[p].kind = "task" /\ procs'[p].sym = sym
                    /\ procs'[p].mb = "accepted"]_vars

\* C34: once a symbol has an analysis time, its evaluation becomes due again
\* only by the interval passing, never by a step of a coroutine; and a tick
\* that arrives while the evaluation is not due starts no signal-driven buy
\* or sell
C34_OneEvaluationPerInterval ==
    /\ [][\A sym \in DOMAIN analysis_due :
            (~analysis_due[sym] /\ analysis_due'[sym]) => procs' = procs]_vars
    /\ [](\A t \in DOMAIN procs, sig \in Signals :
            (/\ procs[t].kind = "task" /\ procs[t].pc = "recv" /\ procs[t].ws_open
             /\ ~analysis_due[procs[t].sym]) =>
                LET r == Interval(Cur, t, sig).procs[t] IN
                r.pc = "sleep" /\ r.op = "none")

\* C38: a selection adds at most max(0, 10 - |active_symbols|) symbols to the
\* active set, none when the set already has 10 or more
C38_SelectionWithinSlots ==
    [][Cardinality(active_symbols' \ active_symbols)
          <= Max(0, SelectLimit - Cardinality(active_symbols))]_vars

\* the rows of the series stored for a symbol
StoredRows(data, sym) == IF sym \in DOMAIN data THEN data[sym].rows ELSE <<>>

\* C33: whatever tick is stored next for a symbol, the stored series is then:
\* the same number of candles with the tick merged into the last one (close of
\* the tick, larger high, smaller low, volumes added) when the timestamps are
\* equal, else the series with the tick appended
C33_TickMergedOrAppended ==
    \A sym \in Scope, tick \in Ticks :
        LET before == StoredRows(candlestick_data, sym)
            after == StoredRows(update_candlestick_data(candlestick_data, sym, tick), sym)
            n == Len(before)
        IN  IF n > 0 /\ before[n].timestamp = tick.timestamp
            THEN /\ Len(after) = n
                 /\ SubSeq(after, 1, n - 1) = SubSeq(before, 1, n - 1)
                 /\ after[n].close = tick.close
                 /\ after[n].high = Max(before[n].high, tick.high)
                 /\ after[n].low = Min(before[n].low, tick.low)
                 /\ after[n].volume = before[n].volume + tick.volume
            ELSE after = Append(before, tick)

\* the positions acquired by a handler's buy on an entry signal
SignalBought ==
    {sym \in DOMAIN holding_coins :
        holding_coins[sym].reason = BranchReason("entry")}

\* C35: the positions bought on entry signals are never more than the
\* holding-coin limit, however the handlers of different symbols interleave
C35_HoldingCoinLimit ==
    Cardinality(SignalBought) <= HoldingCoinLimit

====
